---- MODULE Spec2Model ----
(***************************************************************************)
(* A model of the ToyRover simulator: the Board, the Rover, and the        *)
(* InputController (process_input, run_command, _handle_file,              *)
(* _handle_place) driven by the command loop of run.py and by direct       *)
(* calls of its public methods.                                            *)
(*                                                                         *)
(* float64 values.  A coordinate is a record [nan, w, t] that stands for   *)
(* the double  w/2 + t*delta,  where delta = 2^-54 / 29.  w counts halves  *)
(* (so 1.0 is w = 2 and the 5.0 board is w = 10) and t counts the tiny     *)
(* part that rotation by 90 degrees introduces: numpy's cos(radians(90))   *)
(* is not 0 but 6.123233995736766e-17 = 1.10306 * 2^-54, which is 32 delta *)
(* to within 4 parts in 10^4.  On that grid 2^-54 is 29 delta, so the      *)
(* spacing of the doubles around every coordinate of the board is a whole  *)
(* number of delta and round-to-nearest-even is computed exactly.  Terms   *)
(* of order cos(radians(90))^2 (4e-33) are dropped.                        *)
(***************************************************************************)
EXTENDS Integers, Sequences, FiniteSets, TLC

\* ------------------------------------------------------------------------
\* float64 arithmetic
\* ------------------------------------------------------------------------

\* 2^-53, the spacing of the doubles in [0.5, 1), in units of delta.
Eps53 == 58

\* cos(radians(90.0)) = cos(radians(-90.0)) = 6.123e-17, in units of delta.
Cos90 == 32

F(w, t) == [nan |-> FALSE, w |-> w, t |-> t]

NaN == [nan |-> TRUE, w |-> 0, t |-> 0]

Abs(n) == IF n < 0 THEN -n ELSE n

Sgn(n) == IF n < 0 THEN -1 ELSE IF n > 0 THEN 1 ELSE 0

RECURSIVE Pow2Floor(_)
\* The largest power of two that is <= m, for m >= 1.
Pow2Floor(m) == IF m < 2 THEN 1 ELSE 2 * Pow2Floor(m \div 2)

\* The spacing of the doubles just above |w/2| (w # 0), in units of delta.
Ulp(w) == Eps53 * Pow2Floor(Abs(w))

\* The spacing of the doubles on the side of w/2 that the offset a points to:
\* just below a power of two the doubles are twice as dense.
Spacing(w, a) ==
    IF a < 0 /\ Pow2Floor(Abs(w)) = Abs(w) THEN Ulp(w) \div 2 ELSE Ulp(w)

\* n / sp rounded to the nearest integer, ties to the even one (n >= 0).
RoundHalfEven(n, sp) ==
    LET q == n \div sp
        r == n % sp
    IN  IF 2 * r < sp THEN q
        ELSE IF 2 * r > sp THEN q + 1
        ELSE IF q % 2 = 0 THEN q ELSE q + 1

\* The double nearest to w/2 + t*delta.  Around 0 every tiny value is a double.
Round(w, t) ==
    IF w = 0 \/ t = 0 THEN F(w, t)
    ELSE LET a  == Sgn(w) * t
             sp == Spacing(w, a)
         IN  F(w, Sgn(w) * Sgn(a) * RoundHalfEven(Abs(a), sp) * sp)

FAdd(a, b) == IF a.nan \/ b.nan THEN NaN ELSE Round(a.w + b.w, a.t + b.t)

FNeg(a) == IF a.nan THEN NaN ELSE F(-a.w, -a.t)

\* a * b.  One factor is always 0, +-1.0 or cos(radians(90)), so the product
\* of the whole parts is a whole number of halves.
FMul(a, b) ==
    IF a.nan \/ b.nan THEN NaN
    ELSE Round((a.w * b.w) \div 2, (a.w * b.t + b.w * a.t) \div 2)

\* a / b for whole operands; 0.0 / 0.0 is nan (numpy warns and carries on).
FDiv(a, b) ==
    IF a.nan \/ b.nan THEN NaN
    ELSE IF b.w = 0 /\ b.t = 0 THEN NaN
    ELSE F((2 * a.w) \div b.w, 0)

\* a <= b; every comparison with nan is False.
FLeq(a, b) ==
    /\ ~a.nan
    /\ ~b.nan
    /\ \/ a.w < b.w
       \/ a.w = b.w /\ a.t <= b.t

FAbs(a) == IF a.nan THEN NaN ELSE IF FLeq(F(0, 0), a) THEN a ELSE FNeg(a)

\* The square root of a perfect square.
ISqrt(n) == CHOOSE r \in 0..n : r * r = n

\* ------------------------------------------------------------------------
\* Vec2
\* ------------------------------------------------------------------------

Vec(x, y) == <<x, y>>

VAdd(u, v) == <<FAdd(u[1], v[1]), FAdd(u[2], v[2])>>

VScale(u, k) == <<FMul(u[1], k), FMul(u[2], k)>>

\* np.linalg.norm of a vector whose components are whole numbers of halves
\* and whose squared length is a perfect square.
norm(v) == F(ISqrt(v[1].w * v[1].w + v[2].w * v[2].w), 0)

\* direction / np.linalg.norm(direction)
normalize(v) == <<FDiv(v[1], norm(v)), FDiv(v[2], norm(v))>>

\* rot_mat @ v for a 2x2 matrix m = <<row 1, row 2>>
MatVec(m, v) ==
    << FAdd(FMul(m[1][1], v[1]), FMul(m[1][2], v[2])),
       FAdd(FMul(m[2][1], v[1]), FMul(m[2][2], v[2])) >>

\* ------------------------------------------------------------------------
\* types.py
\* ------------------------------------------------------------------------

CommandNames ==
    <<"FILE", "PLACE", "MOVE", "LEFT", "RIGHT", "REPORT", "HELP", "EXIT">>

Command == {CommandNames[i] : i \in DOMAIN CommandNames}

DirectionNames == <<"NORTH", "EAST", "SOUTH", "WEST">>

Direction == {DirectionNames[i] : i \in DOMAIN DirectionNames}

as_vec2(d) ==
    CASE d = "NORTH" -> Vec(F(0, 0), F(2, 0))
      [] d = "EAST"  -> Vec(F(2, 0), F(0, 0))
      [] d = "SOUTH" -> Vec(F(0, 0), F(-2, 0))
      [] d = "WEST"  -> Vec(F(-2, 0), F(0, 0))

None == [kind |-> "None"]

PlaceArgs(position, direction) ==
    [kind |-> "PlaceArgs", position |-> position, direction |-> direction]

Path(piece) == [kind |-> "Path", path |-> piece]

\* ------------------------------------------------------------------------
\* board.py
\* ------------------------------------------------------------------------

\* run.py: BOARD_SIZE = 5.0, in halves.
BOARD_SIZE == 10

Board == [x_size |-> F(BOARD_SIZE, 0), y_size |-> F(BOARD_SIZE, 0)]

\* A faulty is_point_in_bounds: the far edges are left out.
is_point_in_bounds_open(board, point) ==
    /\ FLeq(F(0, 0), point[1])
    /\ FLeq(point[1], board.x_size) /\ point[1] # board.x_size
    /\ FLeq(F(0, 0), point[2])
    /\ FLeq(point[2], board.y_size) /\ point[2] # board.y_size

\* Board.is_point_in_bounds
is_point_in_bounds(board, point) ==
    /\ FLeq(F(0, 0), point[1])
    /\ FLeq(point[1], board.x_size)
    /\ FLeq(F(0, 0), point[2])
    /\ FLeq(point[2], board.y_size)

\* ------------------------------------------------------------------------
\* rover.py
\* ------------------------------------------------------------------------

Msg(text) == [text |-> text]

MsgPlaceIgnored == Msg("Point is out of bounds. Place action ignored.")

MsgMoveOutOfBounds == Msg("Cannot move as would move rover out of bounds!")

\* An operation of the Rover yields the rover after it, what it printed and
\* the exception it raised ("" when it returned).
Result(rover, out, exc) == [rover |-> rover, out |-> out, exc |-> exc]

\* A faulty place: the position is overwritten, the heading is kept.
place_keep_direction(board, rover, position, direction) ==
    IF is_point_in_bounds(board, position)
    THEN Result([position |-> position,
                 direction |-> IF rover = None THEN direction
                               ELSE rover.direction],
                <<>>, "")
    ELSE Result(rover, <<MsgPlaceIgnored>>, "")

\* A faulty place: a request off the board throws the rover away.
place_or_remove(board, rover, position, direction) ==
    IF is_point_in_bounds(board, position)
    THEN Result([position |-> position, direction |-> normalize(direction)],
                <<>>, "")
    ELSE Result(None, <<MsgPlaceIgnored>>, "")

\* Rover.place: the position is checked, the direction is divided by its norm.
place(board, rover, position, direction) ==
    IF is_point_in_bounds(board, position)
    THEN Result([position |-> position, direction |-> normalize(direction)],
                <<>>, "")
    ELSE Result(rover, <<MsgPlaceIgnored>>, "")

\* A faulty constructor: the position is left to place alone to judge.
Rover_unchecked(board, position, direction) ==
    place(board, None, position, direction)

\* Rover.__init__: raises ValueError before any field is set.
Rover(board, position, direction) ==
    IF ~is_point_in_bounds(board, position)
    THEN Result(None, <<>>, "ValueError")
    ELSE place(board, None, position, direction)

\* A faulty move: the target is committed without asking the board.
move_unchecked(board, rover, distance) ==
    Result([rover EXCEPT !.position = VAdd(@, VScale(rover.direction, distance))],
           <<>>, "")

\* A faulty move: a target off the board is pulled back onto its edge.
move_clamped(board, rover, distance) ==
    LET target_pos == VAdd(rover.position, VScale(rover.direction, distance))
        clamp(v, hi) == IF FLeq(v, F(0, 0)) THEN F(0, 0)
                        ELSE IF FLeq(hi, v) THEN hi ELSE v
    IN  Result([rover EXCEPT !.position =
                    Vec(clamp(target_pos[1], board.x_size),
                        clamp(target_pos[2], board.y_size))],
               <<>>, "")

\* Rover.move
move(board, rover, distance) ==
    LET target_pos == VAdd(rover.position, VScale(rover.direction, distance))
    IN  IF is_point_in_bounds(board, target_pos)
        THEN Result([rover EXCEPT !.position = target_pos], <<>>, "")
        ELSE Result(rover, <<MsgMoveOutOfBounds>>, "")

\* A faulty _get_rot_matrix: the sine entries are twice what they should be.
get_rot_matrix_skewed(angle_deg) ==
    LET c == F(0, Cos90)
        s == F(4 * Sgn(angle_deg), 0)
    IN  << <<c, FNeg(s)>>, <<s, c>> >>

\* Rover._get_rot_matrix for angle_deg = +-90.0: cos is Cos90 for both signs,
\* sin is exactly +-1.0.
get_rot_matrix(angle_deg) ==
    LET c == F(0, Cos90)
        s == F(2 * Sgn(angle_deg), 0)
    IN  << <<c, FNeg(s)>>, <<s, c>> >>

\* A faulty rotate_left: a turn that would leave the rover facing off the
\* board from where it stands is refused.
rotate_left_bounded(rover, angle_deg) ==
    LET turned == MatVec(get_rot_matrix(angle_deg), rover.direction)
    IN  IF is_point_in_bounds(Board, VAdd(rover.position, turned))
        THEN Result([rover EXCEPT !.direction = turned], <<>>, "")
        ELSE Result(rover, <<MsgMoveOutOfBounds>>, "")

\* A faulty rotate_left: it turns the way rotate_right does.
rotate_left_clockwise(rover, angle_deg) ==
    Result([rover EXCEPT !.direction = MatVec(get_rot_matrix(-angle_deg), @)],
           <<>>, "")

rotate_left(rover, angle_deg) ==
    Result([rover EXCEPT !.direction = MatVec(get_rot_matrix(angle_deg), @)],
           <<>>, "")

\* A faulty rotate_right: the heading is left as it is.
rotate_right_none(rover, angle_deg) == Result(rover, <<>>, "")

rotate_right(rover, angle_deg) ==
    Result([rover EXCEPT !.direction = MatVec(get_rot_matrix(-angle_deg), @)],
           <<>>, "")

\* sum(abs(d - direction)) for one Direction
dir_distance(d, direction) ==
    FAdd(FAbs(FAdd(as_vec2(d)[1], FNeg(direction[1]))),
         FAbs(FAdd(as_vec2(d)[2], FNeg(direction[2]))))

\* dist <= 1e-6.  1e-6 is 5 * 10^11 delta, more than any tiny part the model
\* holds, so a distance is within tolerance iff its whole part is zero.
WithinTolerance(dist) == ~dist.nan /\ dist.w = 0

\* np.argmin: the first index holding the minimum; nan counts as the minimum.
ArgMin(ds) ==
    IF \E i \in DOMAIN ds : ds[i].nan
    THEN CHOOSE i \in DOMAIN ds :
             ds[i].nan /\ \A j \in DOMAIN ds : ds[j].nan => i <= j
    ELSE CHOOSE i \in DOMAIN ds :
             /\ \A j \in DOMAIN ds : FLeq(ds[i], ds[j])
             /\ \A j \in DOMAIN ds : (j < i) => ~FLeq(ds[j], ds[i])

\* A faulty _coerce_direction_to_cardinal: only a heading equal to a
\* Direction's vector, bit for bit, is named.
coerce_direction_exact(rover) ==
    IF \E n \in Direction : as_vec2(n) = rover.direction
    THEN [kind |-> "Direction",
          name |-> CHOOSE n \in Direction : as_vec2(n) = rover.direction]
    ELSE None

\* Rover._coerce_direction_to_cardinal: a Direction name or None
coerce_direction_to_cardinal(rover) ==
    LET dists == [i \in DOMAIN DirectionNames |->
                     dir_distance(DirectionNames[i], rover.direction)]
        closest == ArgMin(dists)
    IN  IF WithinTolerance(dists[closest])
        THEN [kind |-> "Direction", name |-> DirectionNames[closest]]
        ELSE None

\* f"{v:.2f}": the value in hundredths; the tiny part never reaches 0.005.
Fmt2(v) == IF v.nan THEN "nan" ELSE 50 * v.w

\* Rover.report
report(rover) ==
    LET cardinal_dir == coerce_direction_to_cardinal(rover)
        direction == IF cardinal_dir # None THEN cardinal_dir
                     ELSE [kind |-> "Vec2", vec |-> rover.direction]
    IN  Result(rover,
               << [text |-> "Rover Position: ",
                   x |-> Fmt2(rover.position[1]),
                   y |-> Fmt2(rover.position[2]),
                   direction |-> direction] >>,
               "")

\* ------------------------------------------------------------------------
\* Text.  A line is a sequence of tokens: a space, a newline, a comma, or an
\* atom (a run of other characters, written as a string).  No line of the
\* model puts two atoms side by side, so an atom is a whole word or a whole
\* comma-separated field.
\* ------------------------------------------------------------------------

SP == " "

NL == "\n"

COMMA == ","

Whitespace == {SP, NL}

\* A faulty strip: the blanks are left where they are.
strip_none(s) == s

\* str.strip()
strip(s) ==
    IF \A i \in DOMAIN s : s[i] \in Whitespace THEN <<>>
    ELSE LET keep == {i \in DOMAIN s : s[i] \notin Whitespace}
             lo == CHOOSE i \in keep : \A j \in keep : i <= j
             hi == CHOOSE i \in keep : \A j \in keep : j <= i
         IN  SubSeq(s, lo, hi)

\* A faulty split: only the first separator cuts.
split_once(s, sep) ==
    IF \A i \in DOMAIN s : s[i] # sep THEN <<s>>
    ELSE LET cut == CHOOSE i \in DOMAIN s :
                        s[i] = sep /\ \A j \in DOMAIN s : s[j] = sep => i <= j
         IN  <<SubSeq(s, 1, cut - 1), SubSeq(s, cut + 1, Len(s))>>

RECURSIVE split(_, _)
\* str.split(sep): every separator cuts, so two in a row give an empty piece.
split(s, sep) ==
    IF \A i \in DOMAIN s : s[i] # sep THEN <<s>>
    ELSE LET cut == CHOOSE i \in DOMAIN s :
                        s[i] = sep /\ \A j \in DOMAIN s : s[j] = sep => i <= j
         IN  <<SubSeq(s, 1, cut - 1)>> \o split(SubSeq(s, cut + 1, Len(s)), sep)

\* The atoms of the model that are not already upper case.
UpperOf ==
    [a \in {"place", "riGHt", "riGHtt", "north", "xxxx", "Cake", "extra"} |->
        CASE a = "place"  -> "PLACE"
          [] a = "riGHt"  -> "RIGHT"
          [] a = "riGHtt" -> "RIGHTT"
          [] a = "north"  -> "NORTH"
          [] a = "xxxx"   -> "XXXX"
          [] a = "Cake"   -> "CAKE"
          [] a = "extra"  -> "EXTRA"]

\* A faulty upper: the text is left in the case it came in.
upper_none(s) == s

\* str.upper()
upper(s) ==
    [i \in DOMAIN s |-> IF s[i] \in DOMAIN UpperOf THEN UpperOf[s[i]] ELSE s[i]]

\* The numerals of the model and the float64 each one parses to.
FloatOf ==
    [a \in {"-1", "0", "1", "3", "4.5", "5", "7", "nan"} |->
        CASE a = "-1"  -> F(-2, 0)
          [] a = "0"   -> F(0, 0)
          [] a = "1"   -> F(2, 0)
          [] a = "3"   -> F(6, 0)
          [] a = "4.5" -> F(9, 0)
          [] a = "5"   -> F(10, 0)
          [] a = "7"   -> F(14, 0)
          [] a = "nan" -> NaN]

\* float(s) succeeds
is_float(s) == Len(s) = 1 /\ s[1] \in DOMAIN FloatOf

\* Command(s) / Direction(s) succeeds: s is the value of a member of the enum
is_member(s, enum) == Len(s) = 1 /\ s[1] \in enum

Cmd(name) == [kind |-> "Command", name |-> name]

\* ------------------------------------------------------------------------
\* The file system the controller reads: which paths are regular files,
\* which of those can be opened, and their lines.
\* ------------------------------------------------------------------------

Line1(a) == <<a, NL>>

Line2(a, b) == <<a, SP, b, NL>>

PlaceLine(c, x, y, d) == <<c, SP, x, COMMA, y, COMMA, d, NL>>

RegularFile(lines) == [is_file |-> TRUE, readable |-> TRUE, lines |-> lines]

FS ==
    [p \in {"good.txt", "nest.txt", "inner.txt", "loop.txt", "ping.txt",
            "pong.txt", "bad.txt", "oob.txt", "scenario.txt", "locked.txt",
            "dir"} |->
        CASE p = "good.txt" ->
                 RegularFile(<< PlaceLine("PLACE", "1", "1", "NORTH"),
                                PlaceLine("PLACE", "1", "3", "NORTH"),
                                PlaceLine("PLACE", "-1", "1", "SOUTH"),
                                PlaceLine("PLACE", "0", "5", "WEST"),
                                PlaceLine("PLACE", "0", "5", "WEAST"),
                                Line1("MALFORMED") >>)
          [] p = "nest.txt" ->
                 RegularFile(<< PlaceLine("PLACE", "3", "3", "NORTH"),
                                Line1("LEFT"),
                                Line2("FILE", "inner.txt"),
                                Line1("REPORT") >>)
          [] p = "inner.txt" ->
                 RegularFile(<< Line1("MOVE"), <<NL>>, Line1("EXIT"),
                                Line1("MOVE") >>)
          [] p = "loop.txt" ->
                 RegularFile(<< Line1("MOVE"), Line2("FILE", "loop.txt") >>)
          [] p = "ping.txt" ->
                 RegularFile(<< Line1("REPORT"), Line2("FILE", "pong.txt"),
                                Line1("REPORT") >>)
          [] p = "pong.txt" ->
                 RegularFile(<< Line2("FILE", "ping.txt") >>)
          [] p = "bad.txt" ->
                 RegularFile(<< PlaceLine("PLACE", "3", "3", "EAST"),
                                Line1("PLACE"),
                                Line1("MOVE") >>)
          [] p = "oob.txt" ->
                 RegularFile(<< PlaceLine("PLACE", "7", "3", "NORTH"),
                                Line1("REPORT") >>)
          [] p = "scenario.txt" ->
                 RegularFile(<< PlaceLine("PLACE", "3", "3", "NORTH"),
                                Line1("MOVE"), Line1("LEFT"),
                                Line1("MOVE"), Line1("MOVE"), Line1("REPORT"),
                                Line1("MOVE"), Line1("MOVE"), Line1("RIGHT"),
                                Line1("MOVE"), Line1("MOVE"),
                                Line1("REPORT") >>)
          [] p = "locked.txt" ->
                 [is_file |-> TRUE, readable |-> FALSE, lines |-> <<>>]
          [] p = "dir" ->
                 [is_file |-> FALSE, readable |-> FALSE, lines |-> <<>>] ]

\* A faulty is_file: every path passes.
is_file_unchecked(fs, path) == TRUE

\* Path.is_file()
is_file(fs, path) ==
    /\ Len(path.path) = 1
    /\ path.path[1] \in DOMAIN fs
    /\ fs[path.path[1]].is_file

\* open(filepath, "r"): the exception it raises, "" when it opens
open_exc(fs, path) ==
    IF Len(path.path) # 1 \/ path.path[1] \notin DOMAIN fs
    THEN "FileNotFoundError"
    ELSE IF ~fs[path.path[1]].is_file THEN "IsADirectoryError"
    ELSE IF ~fs[path.path[1]].readable THEN "PermissionError"
    ELSE ""

\* fh.readlines()
readlines(fs, path) == fs[path.path[1]].lines

\* ------------------------------------------------------------------------
\* input_controller.py: process_input
\* ------------------------------------------------------------------------

MsgFormat == Msg("Input format should be <COMMAND> or <COMMAND> <ARGS>")

MsgUnknownCommand == Msg("Cannot interpret input as a command")

MsgBadArgs == Msg("Unable to interpret args for command")

\* What process_input gives its caller: the pair it returns, what it printed,
\* and the exception that escaped it ("" when it returned).
Parsed(command, args, out, exc) ==
    [command |-> command, args |-> args, out |-> out, exc |-> exc]

\* A faulty `match command:` block: fields after the third are let through.
extract_args_lenient(fs, command, input_pieces) ==
    CASE command = "FILE" ->
             IF Len(input_pieces) < 2 THEN [exc |-> "IndexError", args |-> None]
             ELSE IF ~is_file(fs, Path(input_pieces[2]))
             THEN [exc |-> "ValueError", args |-> None]
             ELSE [exc |-> "", args |-> Path(input_pieces[2])]
      [] command = "PLACE" ->
             IF Len(input_pieces) < 2 THEN [exc |-> "IndexError", args |-> None]
             ELSE LET place_args == split(input_pieces[2], COMMA)
                  IN  IF Len(place_args) < 3
                      THEN [exc |-> "ValueError", args |-> None]
                      ELSE IF ~is_float(place_args[1]) \/ ~is_float(place_args[2])
                      THEN [exc |-> "ValueError", args |-> None]
                      ELSE IF ~is_member(upper(place_args[3]), Direction)
                      THEN [exc |-> "ValueError", args |-> None]
                      ELSE [exc |-> "",
                            args |-> PlaceArgs(
                                Vec(FloatOf[place_args[1][1]],
                                    FloatOf[place_args[2][1]]),
                                as_vec2(upper(place_args[3])[1]))]
      [] OTHER -> [exc |-> "", args |-> None]

\* A faulty `match command:` block: a command that takes no arguments
\* refuses a second token.
extract_args_strict(fs, command, input_pieces) ==
    IF command \notin {"FILE", "PLACE"}
    THEN IF Len(input_pieces) > 1 THEN [exc |-> "ValueError", args |-> None]
         ELSE [exc |-> "", args |-> None]
    ELSE extract_args_lenient(fs, command, input_pieces)

\* The `match command:` block; "ValueError" is caught by the caller below.
extract_args(fs, command, input_pieces) ==
    CASE command = "FILE" ->
             IF Len(input_pieces) < 2 THEN [exc |-> "IndexError", args |-> None]
             ELSE IF ~is_file(fs, Path(input_pieces[2]))
             THEN [exc |-> "ValueError", args |-> None]
             ELSE [exc |-> "", args |-> Path(input_pieces[2])]
      [] command = "PLACE" ->
             IF Len(input_pieces) < 2 THEN [exc |-> "IndexError", args |-> None]
             ELSE LET place_args == split(input_pieces[2], COMMA)
                  IN  IF Len(place_args) # 3
                      THEN [exc |-> "ValueError", args |-> None]
                      ELSE IF ~is_float(place_args[1]) \/ ~is_float(place_args[2])
                      THEN [exc |-> "ValueError", args |-> None]
                      ELSE IF ~is_member(upper(place_args[3]), Direction)
                      THEN [exc |-> "ValueError", args |-> None]
                      ELSE [exc |-> "",
                            args |-> PlaceArgs(
                                Vec(FloatOf[place_args[1][1]],
                                    FloatOf[place_args[2][1]]),
                                as_vec2(upper(place_args[3])[1]))]
      [] OTHER -> [exc |-> "", args |-> None]

process_input(fs, input) ==
    LET cleaned_input == strip(input)
        input_pieces == split(cleaned_input, SP)
    IN  IF Len(cleaned_input) = 0 THEN Parsed(None, None, <<>>, "")
        ELSE IF Len(input_pieces) # 1 /\ Len(input_pieces) # 2
        THEN Parsed(None, None, <<MsgFormat>>, "")
        ELSE IF ~is_member(upper(input_pieces[1]), Command)
        THEN Parsed(None, None, <<MsgUnknownCommand>>, "")
        ELSE LET command == upper(input_pieces[1])[1]
                 got == extract_args(fs, command, input_pieces)
             IN  IF got.exc = "ValueError"
                 THEN Parsed(None, None, <<MsgBadArgs>>, "")
                 ELSE IF got.exc # ""
                 THEN Parsed(None, None, <<>>, got.exc)
                 ELSE Parsed(Cmd(command), got.args, <<>>, "")

\* ------------------------------------------------------------------------
\* input_controller.py: run_command and its handlers
\* ------------------------------------------------------------------------

\* MOVE_DISTANCE = 1.0, in halves.
MOVE_DISTANCE == 2

\* ROTATE_ANGLE = 90.0 degrees.
ROTATE_ANGLE == 90

MsgCreateOutOfBounds == Msg("Unable to create rover as this is out of bounds.")

MsgNoRover == Msg("No rover present, place a rover first!")

MsgHelpHeader == Msg("List of commands:")

\* A faulty _handle_place: the first rover is created wherever it is asked.
handle_place_unchecked(board, rover, place_args) ==
    IF rover = None
    THEN Result([position |-> place_args.position,
                 direction |-> place_args.direction], <<>>, "")
    ELSE place(board, rover, place_args.position, place_args.direction)

\* InputController._handle_place
handle_place(board, rover, place_args) ==
    IF rover = None
    THEN IF is_point_in_bounds(board, place_args.position)
         THEN Rover(board, place_args.position, place_args.direction)
         ELSE Result(None, <<MsgCreateOutOfBounds>>, "")
    ELSE place(board, rover, place_args.position, place_args.direction)

\* A faulty else-branch: a rover appears at the origin instead of a message.
no_rover_default(rover) ==
    Result([position |-> Vec(F(0, 0), F(0, 0)), direction |-> as_vec2("NORTH")],
           <<>>, "")

\* The else-branch of MOVE, LEFT, RIGHT and REPORT: no rover has been placed.
no_rover(rover) == Result(rover, <<MsgNoRover>>, "")

\* What run_command gives its caller: Result plus the value returned
\* ("True", "False", or "" when an exception escaped instead).
Returned(res, ret) ==
    [rover |-> res.rover, out |-> res.out, exc |-> res.exc,
     ret |-> IF res.exc = "" THEN ret ELSE ""]

\* The print loop of HELP: one line per member of Command, in order.
help_lines ==
    <<MsgHelpHeader>> \o
    [i \in DOMAIN CommandNames |-> [text |-> "\t", value |-> CommandNames[i]]]

\* InputController.run_command for every command but FILE, whose branch
\* spans several steps (dispatch, FileLine, FileReturn below).
run_command(board, rover, command, args) ==
    CASE command.name = "PLACE" ->
             IF args.kind # "PlaceArgs"
             THEN Returned(Result(rover, <<>>, "AssertionError"), "")
             ELSE Returned(handle_place(board, rover, args), "True")
      [] command.name = "MOVE" ->
             IF rover # None
             THEN Returned(move(board, rover, F(MOVE_DISTANCE, 0)), "True")
             ELSE Returned(no_rover(rover), "True")
      [] command.name = "LEFT" ->
             IF rover # None
             THEN Returned(rotate_left(rover, ROTATE_ANGLE), "True")
             ELSE Returned(no_rover(rover), "True")
      [] command.name = "RIGHT" ->
             IF rover # None
             THEN Returned(rotate_right(rover, ROTATE_ANGLE), "True")
             ELSE Returned(no_rover(rover), "True")
      [] command.name = "REPORT" ->
             IF rover # None
             THEN Returned(report(rover), "True")
             ELSE Returned(no_rover(rover), "True")
      [] command.name = "HELP" ->
             Returned(Result(rover, help_lines, ""), "True")
      [] command.name = "EXIT" ->
             Returned(Result(rover, <<>>, ""), "False")

\* ------------------------------------------------------------------------
\* Bounds and inputs
\* ------------------------------------------------------------------------

\* The tiny part of a coordinate that a step at the prompt may leave behind,
\* in multiples of Cos90: rotations and moves that would exceed it are not
\* taken.
MaxDrift == 1

\* The depth of nested FILE commands at which the interpreter gives up with
\* RecursionError (CPython's recursion limit, scaled down).
MaxDepth == 3

InModel(r) ==
    IF r = None THEN TRUE
    ELSE \A i \in 1..2 :
             /\ Abs(r.position[i].t) <= MaxDrift * Cos90
             /\ Abs(r.direction[i].t) <= MaxDrift * Cos90

\* Lines typed at the prompt (input() drops the newline).
PromptLines ==
    {<<"PLACE", SP, "0", COMMA, "0", COMMA, "NORTH">>,
     <<"PLACE", SP, "3", COMMA, "3", COMMA, "NORTH">>,
     <<"PLACE", SP, "4.5", COMMA, "3", COMMA, "EAST">>,
     <<"PLACE", SP, "0", COMMA, "5", COMMA, "WEST">>,
     <<"PLACE", SP, "3", COMMA, "0", COMMA, "SOUTH">>,
     <<"place", SP, "1", COMMA, "1", COMMA, "north">>,
     <<"PLACE", SP, "7", COMMA, "3", COMMA, "NORTH">>,
     <<"PLACE", SP, "3", COMMA, "-1", COMMA, "SOUTH">>,
     <<"PLACE", SP, "nan", COMMA, "3", COMMA, "WEST">>,
     <<"PLACE", SP, "1", COMMA, "1", COMMA, "NORTH", COMMA, "1">>,
     <<"PLACE", SP, "1", COMMA, "1">>,
     <<"PLACE", SP, "Cake", COMMA, "1", COMMA, "NORTH">>,
     <<"PLACE", SP, "0", COMMA, "5", COMMA, "WEAST">>,
     <<"PLACE">>, <<"FILE">>, <<"xxxx">>, <<"riGHtt">>,
     <<>>, <<SP, SP>>,
     <<"MOVE">>, <<"LEFT">>, <<"RIGHT">>, <<"REPORT">>, <<"HELP">>,
     <<"EXIT">>, <<"riGHt">>, <<SP, SP, "EXIT", SP, SP>>,
     <<"MOVE", SP, "extra">>, <<"MOVE", SP, SP, "extra">>}
    \cup {<<"FILE", SP, p>> : p \in DOMAIN FS \cup {"missing.txt"}}

\* (command, args) pairs handed to run_command directly, as the unit tests do.
CallInputs ==
    {<<Cmd("EXIT"), None>>,
     <<Cmd("FILE"), Path(<<"good.txt">>)>>,
     <<Cmd("FILE"), Path(<<"missing.txt">>)>>,
     <<Cmd("PLACE"), PlaceArgs(Vec(F(2, 0), F(6, 0)), as_vec2("EAST"))>>,
     <<Cmd("PLACE"), PlaceArgs(Vec(F(14, 0), F(6, 0)), as_vec2("SOUTH"))>>}

\* (position, direction) pairs handed to Rover.place directly: the direction
\* need not be a unit vector.
PlaceInputs ==
    {<<Vec(F(x, 0), F(y, 0)), Vec(F(dx, 0), F(dy, 0))>> :
        x \in {2, 20}, y \in {8}, dx \in {-2, 0, 4}, dy \in {0}}
    \cup {<<Vec(F(6, 0), F(-2, 0)), Vec(F(0, 0), F(2, 0))>>}

\* ------------------------------------------------------------------------
\* The state machine
\* ------------------------------------------------------------------------

VARIABLES
    rover,   \* InputController._rover: None or [position, direction]
    stack,   \* the batch files being read, outermost first: [path, idx]
    status,  \* "running", "exited" (the loop saw False) or "crashed"
    last,    \* the step just taken: [op, line, command, args, exc, where, ret]
    out,     \* what that step printed
    log      \* the (command, args) pairs dispatched since the prompt

vars == <<rover, stack, status, last, out, log>>

\* A step: the line it parsed (op "prompt" or "line"), the command and args
\* that process_input returned or the caller passed, the exception that
\* escaped and the function it escaped from, and the value run_command
\* returned ("" when it was not called or has not returned yet).
Step(op, line, command, args, exc, where, ret) ==
    [op |-> op, line |-> line, command |-> command, args |-> args,
     exc |-> exc, where |-> IF exc = "" THEN "" ELSE where, ret |-> ret]

Init ==
    /\ rover = None
    /\ stack = <<>>
    /\ status = "running"
    /\ last = Step("init", <<>>, None, None, "", "", "")
    /\ out = <<>>
    /\ log = <<>>

\* A faulty FILE branch: a file that is already being read is not read
\* again, and the command returns True at once.
dispatch_acyclic(r, command, args, depth) ==
    IF command.name = "FILE"
    THEN IF args.kind = "Path" /\ \E i \in DOMAIN stack : stack[i].path = args
         THEN [rover |-> r, out |-> <<>>, exc |-> "", ret |-> "True",
               push |-> FALSE]
         ELSE LET exc == IF args.kind # "Path" THEN "AssertionError"
                         ELSE IF depth >= MaxDepth THEN "RecursionError"
                         ELSE open_exc(FS, args)
              IN  [rover |-> r, out |-> <<>>, exc |-> exc, ret |-> "",
                   push |-> exc = ""]
    ELSE LET res == run_command(Board, r, command, args)
         IN  [rover |-> res.rover, out |-> res.out, exc |-> res.exc,
              ret |-> res.ret, push |-> FALSE]

\* run_command(command, args) called with `depth` files already open.  The
\* FILE branch opens the file (push: _handle_file has entered its loop) or
\* fails; every other branch runs to its return.
dispatch(r, command, args, depth) ==
    IF command.name = "FILE"
    THEN LET exc == IF args.kind # "Path" THEN "AssertionError"
                    ELSE IF depth >= MaxDepth THEN "RecursionError"
                    ELSE open_exc(FS, args)
         IN  [rover |-> r, out |-> <<>>, exc |-> exc, ret |-> "",
              push |-> exc = ""]
    ELSE LET res == run_command(Board, r, command, args)
         IN  [rover |-> res.rover, out |-> res.out, exc |-> res.exc,
              ret |-> res.ret, push |-> FALSE]

Frame(path) == [path |-> path, idx |-> 1]

\* The effect of one run_command call made from the top level (the loop of
\* run.py when byLoop, a direct caller otherwise).
TopLevel(op, line, p_out, command, args, byLoop) ==
    \E d \in {dispatch(rover, command, args, 0)} :
        /\ InModel(d.rover)
        /\ rover' = d.rover
        /\ out' = p_out \o d.out
        /\ log' = <<[command |-> command, args |-> args]>>
        /\ last' = Step(op, line, command, args, d.exc, "run_command", d.ret)
        /\ stack' = IF d.push THEN <<Frame(args)>> ELSE <<>>
        /\ status' = IF d.exc # "" THEN "crashed"
                     ELSE IF byLoop /\ d.ret = "False" THEN "exited"
                     ELSE "running"

\* One iteration of the loop of run(): input(), process_input, run_command.
Prompt(line) ==
    /\ status = "running"
    /\ stack = <<>>
    /\ \E p \in {process_input(FS, line)} :
           IF p.exc # "" \/ p.command = None
           THEN /\ last' = Step("prompt", line, None, None, p.exc,
                                "process_input", "")
                /\ out' = p.out
                /\ log' = <<>>
                /\ status' = IF p.exc # "" THEN "crashed" ELSE "running"
                /\ UNCHANGED <<rover, stack>>
           ELSE TopLevel("prompt", line, p.out, p.command, p.args, TRUE)

\* run_command called directly.
Call(command, args) ==
    /\ status = "running"
    /\ stack = <<>>
    /\ TopLevel("call", <<>>, <<>>, command, args, FALSE)

\* A faulty loop of _handle_file: the value run_command returns is heeded,
\* and False closes every file and stops the session.
FileDispatch_stops(line, p, advanced) ==
    \E d \in {dispatch(rover, p.command, p.args, Len(stack))} :
        /\ rover' = d.rover
        /\ out' = p.out \o d.out
        /\ log' = Append(log, [command |-> p.command, args |-> p.args])
        /\ last' = Step("line", line, p.command, p.args, d.exc,
                        "run_command", d.ret)
        /\ stack' = IF d.exc # "" \/ d.ret = "False" THEN <<>>
                    ELSE IF d.push THEN Append(advanced, Frame(p.args))
                    ELSE advanced
        /\ status' = IF d.exc # "" THEN "crashed"
                     ELSE IF d.ret = "False" THEN "exited"
                     ELSE status

\* A line of a batch file that is a command: it is dispatched with the files
\* of `stack` open, and the value run_command returns is dropped.
FileDispatch(line, p, advanced) ==
    \E d \in {dispatch(rover, p.command, p.args, Len(stack))} :
        /\ rover' = d.rover
        /\ out' = p.out \o d.out
        /\ log' = Append(log, [command |-> p.command, args |-> p.args])
        /\ last' = Step("line", line, p.command, p.args, d.exc,
                        "run_command", d.ret)
        /\ stack' = IF d.exc # "" THEN <<>>
                    ELSE IF d.push THEN Append(advanced, Frame(p.args))
                    ELSE advanced
        /\ status' = IF d.exc # "" THEN "crashed" ELSE status

\* One iteration of the loop of _handle_file: the next line of the innermost
\* open file is parsed and, if it is a command, dispatched.  An exception
\* closes every open file on its way out and escapes to the top level.
FileLine ==
    /\ stack # <<>>
    /\ \E top \in {stack[Len(stack)]} :
           /\ top.idx <= Len(readlines(FS, top.path))
           /\ \E line \in {readlines(FS, top.path)[top.idx]} :
              \E p \in {process_input(FS, line)} :
              \E advanced \in {[stack EXCEPT ![Len(stack)].idx = @ + 1]} :
                  IF p.exc # "" \/ p.command = None
                  THEN /\ last' = Step("line", line, None, None, p.exc,
                                       "process_input", "")
                       /\ out' = p.out
                       /\ stack' = IF p.exc # "" THEN <<>> ELSE advanced
                       /\ status' = IF p.exc # "" THEN "crashed" ELSE status
                       /\ UNCHANGED <<rover, log>>
                  ELSE FileDispatch(line, p, advanced)

\* The innermost open file is exhausted: the `with` closes it, _handle_file
\* returns and the run_command that called it returns True.
FileReturn ==
    /\ stack # <<>>
    /\ \E top \in {stack[Len(stack)]} :
           /\ top.idx > Len(readlines(FS, top.path))
           /\ stack' = SubSeq(stack, 1, Len(stack) - 1)
           /\ last' = Step("return", <<>>, Cmd("FILE"), top.path, "", "",
                           "True")
           /\ out' = <<>>
           /\ UNCHANGED <<rover, status, log>>

\* Rover.place called directly on the controller's rover.
RoverPlace(position, direction) ==
    /\ status = "running"
    /\ stack = <<>>
    /\ rover # None
    /\ \E res \in {place(Board, rover, position, direction)} :
           /\ rover' = res.rover
           /\ out' = res.out
           /\ last' = Step("place", <<>>, None,
                           PlaceArgs(position, direction), "", "", "")
           /\ log' = <<>>
           /\ UNCHANGED <<stack, status>>

Next ==
    \/ \E line \in PromptLines : Prompt(line)
    \/ \E c \in CallInputs : Call(c[1], c[2])
    \/ FileLine
    \/ FileReturn
    \/ \E pd \in PlaceInputs : RoverPlace(pd[1], pd[2])

Spec == Init /\ [][Next]_vars

\* The session alone: every command reaches the rover through process_input,
\* typed at the prompt or read from a batch file.
NextSession ==
    \/ \E line \in PromptLines : Prompt(line)
    \/ FileLine
    \/ FileReturn

SpecSession == Init /\ [][NextSession]_vars

\* ------------------------------------------------------------------------
\* The Rover driven directly, as the unit tests drive it: constructed, placed
\* and rotated.  `log` holds the rotations made since the rover was last
\* constructed or placed, the last four at most, each with the heading it
\* started from.
\* ------------------------------------------------------------------------

\* The tiny part of a heading that a rotation of the directly driven rover
\* may leave behind, in multiples of Cos90.
RotDrift == 4

\* (position, direction) pairs handed to Rover(...): positions on and off
\* the board, the four Directions, a vector of length two, the zero vector.
NewInputs ==
    {<<Vec(F(x, 0), F(y, 0)), d>> :
        x \in {6, 14}, y \in {6},
        d \in {as_vec2(n) : n \in Direction}
              \cup {Vec(F(4, 0), F(0, 0)), Vec(F(0, 0), F(0, 0))}}
    \cup {<<Vec(F(0, 0), F(10, 0)), as_vec2("EAST")>>,
          <<Vec(F(6, 0), F(-2, 0)), as_vec2("NORTH")>>}

LastFour(seq) ==
    IF Len(seq) <= 4 THEN seq ELSE SubSeq(seq, Len(seq) - 3, Len(seq))

\* rover = Rover(board, position, direction): on an exception no object is
\* made.
New(position, direction) ==
    /\ status = "running"
    /\ stack = <<>>
    /\ rover = None
    /\ \E res \in {Rover(Board, position, direction)} :
           /\ rover' = res.rover
           /\ out' = res.out
           /\ last' = Step("new", <<>>, None, PlaceArgs(position, direction),
                           res.exc, "Rover", "")
           /\ log' = <<>>
           /\ UNCHANGED <<stack, status>>

\* rover.rotate_left(90.0) or rover.rotate_right(90.0)
Rotate(op, res) ==
    /\ \A i \in 1..2 : Abs(res.rover.direction[i].t) <= RotDrift * Cos90
    /\ rover' = res.rover
    /\ out' = res.out
    /\ last' = Step(op, <<>>, None, None, "", "", "")
    /\ log' = LastFour(Append(log, [op |-> op, direction |-> rover.direction]))
    /\ UNCHANGED <<stack, status>>

RotateLeft ==
    /\ status = "running"
    /\ stack = <<>>
    /\ rover # None
    /\ \E res \in {rotate_left(rover, ROTATE_ANGLE)} : Rotate("rotate_left", res)

RotateRight ==
    /\ status = "running"
    /\ stack = <<>>
    /\ rover # None
    /\ \E res \in {rotate_right(rover, ROTATE_ANGLE)} :
           Rotate("rotate_right", res)

NextRover ==
    \/ \E nd \in NewInputs : New(nd[1], nd[2])
    \/ \E pd \in PlaceInputs : RoverPlace(pd[1], pd[2])
    \/ RotateLeft
    \/ RotateRight

SpecRover == Init /\ [][NextRover]_vars

\* ------------------------------------------------------------------------
\* Board.is_point_in_bounds as a function: a board and a point are drawn,
\* and the query is answered.
\* ------------------------------------------------------------------------

\* The largest whole coordinate queried, in halves.
MaxCoord == 12

\* The board of run.py and the 5 x 3 board of test_board.py.
Boards ==
    {Board, [x_size |-> F(BOARD_SIZE, 0), y_size |-> F(6, 0)]}

\* Coordinates: every half from -1.0 to MaxCoord / 2, the doubles next to
\* 0.0, 3.0 and 5.0 on either side, and nan.
Coordinates ==
    {F(w, 0) : w \in -2..MaxCoord}
    \cup {F(0, -1), F(0, 1)}
    \cup UNION {{F(w, -Ulp(w)), F(w, Ulp(w))} : w \in {6, BOARD_SIZE}}
    \cup {NaN}

Query(board, point) == [kind |-> "Query", board |-> board, point |-> point]

InitBoard ==
    /\ rover = None
    /\ stack = <<>>
    /\ status = "running"
    /\ out = <<>>
    /\ log = <<>>
    /\ \E board \in Boards, x \in Coordinates, y \in Coordinates :
           last = Step("query", <<>>, None, Query(board, Vec(x, y)), "", "", "")

\* board.is_point_in_bounds(point)
Contains ==
    /\ last.op = "query"
    /\ last' = Step("is_point_in_bounds", <<>>, None, last.args, "", "",
                    IF is_point_in_bounds(last.args.board, last.args.point)
                    THEN "True" ELSE "False")
    /\ out' = <<>>
    /\ UNCHANGED <<rover, stack, status, log>>

SpecBoard == InitBoard /\ [][Contains]_vars

\* ------------------------------------------------------------------------
\* process_input as a function: a line is drawn and parsed.
\* ------------------------------------------------------------------------

\* The most comma-separated fields an argument token of a drawn line has.
MaxFields == 4

\* First tokens: the commands, some in mixed case, and words that are none.
Words ==
    {"PLACE", "place", "FILE", "MOVE", "LEFT", "RIGHT", "riGHt", "REPORT",
     "HELP", "EXIT", "xxxx", "riGHtt"}

\* The fields of an argument token: numerals, names and the empty field.
Fields ==
    {<<"1">>, <<"4.5">>, <<"nan">>, <<"Cake">>, <<"NORTH">>, <<"north">>,
     <<"WEST">>, <<>>}

RECURSIVE Joined(_)
\* The argument tokens of n fields: fields with a comma between them.
Joined(n) ==
    IF n = 1 THEN Fields
    ELSE {a \o <<COMMA>> \o f : a \in Joined(n - 1), f \in Fields}

ArgTokens == UNION {Joined(n) : n \in 1..MaxFields}

\* The line as typed, with blanks around it, and as a file holds it.
Padded(text) ==
    {text, <<SP, SP>> \o text, <<SP, SP>> \o text \o <<SP, SP>>,
     text \o <<NL>>}

ParseLines ==
    UNION {Padded(<<w>>) : w \in Words}
    \cup {<<w, SP>> \o a : w \in {"PLACE", "place"}, a \in ArgTokens}
    \cup UNION {Padded(<<w, SP>> \o a) :
                  w \in Words,
                  a \in {<<"extra">>, <<"1", COMMA, "1", COMMA, "NORTH">>,
                         <<"good.txt">>, <<"missing.txt">>}}
    \cup UNION {Padded(<<w>> \o more) :
                  w \in Words,
                  more \in {<<SP, SP, "extra">>, <<SP, "extra", SP, "extra">>,
                            <<SP, "1", COMMA, SP, "1", COMMA, "NORTH">>,
                            <<SP, "1", COMMA, "1", COMMA, "NORTH", SP>>}}
    \cup {<<>>, <<SP>>, <<NL>>, <<SP, SP, NL>>}

InitParse ==
    /\ rover = None
    /\ stack = <<>>
    /\ status = "running"
    /\ out = <<>>
    /\ log = <<>>
    /\ \E line \in ParseLines :
           last = Step("input", line, None, None, "", "", "")

\* input_controller.process_input(line)
Parse ==
    /\ last.op = "input"
    /\ \E p \in {process_input(FS, last.line)} :
           /\ last' = Step("process_input", last.line, p.command, p.args,
                           p.exc, "process_input", "")
           /\ out' = p.out
    /\ UNCHANGED <<rover, stack, status, log>>

SpecParse == InitParse /\ [][Parse]_vars

\* ------------------------------------------------------------------------
\* Properties
\* ------------------------------------------------------------------------

\* 0 <= v <= 5.0, read off the representation.
InRange(v) ==
    /\ ~v.nan
    /\ v.w > 0 \/ (v.w = 0 /\ v.t >= 0)
    /\ v.w < BOARD_SIZE \/ (v.w = BOARD_SIZE /\ v.t <= 0)

OnBoard(point) == InRange(point[1]) /\ InRange(point[2])

\* The step just taken called run_command with the command `name`.
Dispatched(name) ==
    last.op \in {"prompt", "call", "line"} /\ last.command = Cmd(name)

\* C1: whenever a rover exists, both coordinates of its position lie within
\* the board, 0 <= x <= x_size and 0 <= y <= y_size, whatever commands and
\* batch files have run.
C1_PositionOnBoard == rover # None => OnBoard(rover.position)

\* C1 witness: a rover on the board inside a batch file, just after one of
\* the file's MOVE lines was refused at the edge.
C1_Witness ==
    /\ rover # None
    /\ stack # <<>>
    /\ Dispatched("MOVE")
    /\ out = <<MsgMoveOutOfBounds>>
    /\ OnBoard(rover.position)

\* C2: a MOVE of an existing rover computes position + direction * distance;
\* if the board contains that target the target becomes the position, and
\* otherwise the rover is left exactly as it was and the out-of-bounds
\* message is printed.  The position is never pulled to the edge.
C2_MoveCommitsOrRefuses ==
    [][(rover # None /\ Dispatched("MOVE")') =>
          LET target == VAdd(rover.position,
                             VScale(rover.direction, F(MOVE_DISTANCE, 0)))
          IN  IF OnBoard(target)
              THEN /\ rover' = [rover EXCEPT !.position = target]
                   /\ out' = <<>>
              ELSE /\ rover' = rover
                   /\ out' = <<MsgMoveOutOfBounds>>]_vars

\* C2 witness: a rover at x = 4.5 heading EAST, strictly inside the board and
\* half a unit from its edge, has just been refused a MOVE and is still at 4.5.
C2_Witness ==
    /\ Dispatched("MOVE")
    /\ out = <<MsgMoveOutOfBounds>>
    /\ rover # None
    /\ rover.position[1] = F(9, 0)
    /\ rover.direction = as_vec2("EAST")

\* C3: a PLACE dispatched while no rover exists creates the rover with the
\* requested position and direction if the board contains the position, and
\* otherwise prints a message and creates nothing; a REPORT dispatched while
\* no rover exists prints the no-rover message and reports no position.
C3_FirstPlace ==
    [][/\ (rover = None /\ Dispatched("PLACE")') =>
             IF OnBoard(last'.args.position)
             THEN /\ rover' = [position |-> last'.args.position,
                               direction |-> last'.args.direction]
                  /\ out' = <<>>
             ELSE /\ rover' = None
                  /\ out' = <<MsgCreateOutOfBounds>>
       /\ (rover = None /\ Dispatched("REPORT")') =>
             /\ rover' = None
             /\ out' = <<MsgNoRover>>]_vars

\* C3 witness: a batch file placed the first rover off the board and then
\* asked for a REPORT, which printed the no-rover message.
C3_Witness ==
    /\ rover = None
    /\ Len(log) = 3
    /\ log[2].command = Cmd("PLACE")
    /\ ~OnBoard(log[2].args.position)
    /\ log[3].command = Cmd("REPORT")
    /\ out = <<MsgNoRover>>

\* The step about to be taken calls Rover.place on the existing rover, either
\* directly or through a dispatched PLACE.
PlacesExisting ==
    rover # None /\ (last'.op = "place" \/ Dispatched("PLACE")')

\* The vector of length one along an axis-parallel vector v, and nan for the
\* zero vector: v divided by its Euclidean norm.
UnitVector(v) ==
    IF v[1].w = 0 /\ v[2].w = 0 THEN Vec(NaN, NaN)
    ELSE Vec(F(2 * Sgn(v[1].w), 0), F(2 * Sgn(v[2].w), 0))

\* C4 as stated: Rover.place on an existing rover stores the requested
\* position and the requested direction themselves when the board contains
\* the position, and otherwise changes neither and prints a message.
C4_PlaceStoresRequested ==
    [][PlacesExisting =>
          IF OnBoard(last'.args.position)
          THEN /\ rover' = [position |-> last'.args.position,
                            direction |-> last'.args.direction]
               /\ out' = <<>>
          ELSE /\ rover' = rover
               /\ out' = <<MsgPlaceIgnored>>]_vars

\* C4 amended: Rover.place on an existing rover, when the board contains the
\* requested position, overwrites the position with the requested one and the
\* direction with the requested direction divided by its norm (the requested
\* direction itself when it has length one, nan components when it is the
\* zero vector), whatever the heading was before; otherwise neither changes
\* and a message is printed.
C4_PlaceStoresNormalized ==
    [][PlacesExisting =>
          IF OnBoard(last'.args.position)
          THEN /\ rover' = [position |-> last'.args.position,
                            direction |-> UnitVector(last'.args.direction)]
               /\ out' = <<>>
          ELSE /\ rover' = rover
               /\ out' = <<MsgPlaceIgnored>>]_vars

\* C4 witness: Rover.place was called with a direction of length two on the
\* board, and the rover now holds the requested position and a unit heading.
C4_Witness ==
    /\ last.op = "place"
    /\ last.args.direction = Vec(F(4, 0), F(0, 0))
    /\ rover # None
    /\ rover.position = last.args.position
    /\ rover.direction = Vec(F(2, 0), F(0, 0))

\* C5: MOVE, LEFT, RIGHT or REPORT dispatched while no rover exists prints
\* the no-rover message, leaves the controller without a rover and the
\* session as it was, raises nothing and returns True (continue).
C5_NoRoverNoEffect ==
    [][(/\ rover = None
        /\ \E name \in {"MOVE", "LEFT", "RIGHT", "REPORT"} : Dispatched(name)')
       => /\ rover' = None
          /\ out' = <<MsgNoRover>>
          /\ last'.exc = ""
          /\ last'.ret = "True"
          /\ status' = status]_vars

\* C5 witness: a LEFT dispatched with no rover printed the message and
\* returned True.
C5_Witness ==
    /\ rover = None
    /\ Dispatched("LEFT")
    /\ out = <<MsgNoRover>>
    /\ last.ret = "True"

\* The step just taken called run_command; the call is over unless it is a
\* FILE whose lines are still being read.
RunCommandCalled == last.op \in {"prompt", "call", "line"} /\ last.command # None

StillReading == last.command = Cmd("FILE") /\ last.exc = "" /\ last.ret = ""

\* C6: run_command returns False (stop) if and only if the command is EXIT,
\* every other command returns True (continue), and EXIT changes nothing
\* else: the rover is as before and nothing is printed.
C6_StopIffExit ==
    [][RunCommandCalled' =>
          IF last'.command = Cmd("EXIT")
          THEN /\ last'.ret = "False"
               /\ rover' = rover
               /\ out' = <<>>
          ELSE StillReading' \/ last'.ret = "True"]_vars

\* C7: process_input never raises: whatever the line, a bare FILE or PLACE
\* included, it returns a (command, args) pair or no command.
C7_ProcessInputNeverRaises ==
    last.op \in {"prompt", "line"} => last.where # "process_input"

RECURSIVE FileCommands(_, _, _)
\* The (command, args) pairs that reading the file `path` from line idx on
\* dispatches when every line is parsed in order, the lines that are no
\* command are passed over and every nested FILE is read in full; `fuel`
\* bounds the nesting.
FileCommands(path, idx, fuel) ==
    IF idx > Len(readlines(FS, path)) THEN <<>>
    ELSE LET p == process_input(FS, readlines(FS, path)[idx])
             rest == FileCommands(path, idx + 1, fuel)
         IN  IF p.command = None THEN rest
             ELSE <<[command |-> p.command, args |-> p.args]>>
                  \o (IF p.command = Cmd("FILE") /\ fuel > 0
                      THEN FileCommands(p.args, 1, fuel - 1) ELSE <<>>)
                  \o rest

\* The files whose nesting ends: reading them never reads them again.
EndingFiles ==
    {f \in {Path(<<q>>) : q \in DOMAIN FS} :
        /\ open_exc(FS, f) = ""
        /\ FileCommands(f, 1, Cardinality(DOMAIN FS))
               = FileCommands(f, 1, Cardinality(DOMAIN FS) + 1)}

\* C8: a FILE on a readable file dispatches the commands of its lines one
\* after the other in file order; a blank or malformed line is passed over
\* and never keeps the lines after it from being dispatched.  So once the
\* outermost file is no longer being read, exactly the commands of all its
\* lines have been dispatched, in order.
C8_EveryLineInOrder ==
    (/\ stack = <<>>
     /\ log # <<>>
     /\ log[1].command = Cmd("FILE")
     /\ log[1].args \in EndingFiles)
    => Tail(log) = FileCommands(log[1].args, 1, Cardinality(DOMAIN FS))

\* The path cannot be opened for reading: nothing of that name, or no
\* permission to read it.
MissingOrUnreadable(path) ==
    \/ Len(path.path) # 1
    \/ path.path[1] \notin DOMAIN FS
    \/ ~FS[path.path[1]].readable

\* C9: dispatching FILE with a path that is missing or unreadable fails
\* gracefully: a message is printed, nothing is raised, True (continue) is
\* returned and the session goes on with the rover it had.
C9_FileDispatchFailsGracefully ==
    [][(/\ RunCommandCalled'
        /\ last'.command = Cmd("FILE")
        /\ MissingOrUnreadable(last'.args))
       => /\ last'.exc = ""
          /\ last'.ret = "True"
          /\ out' # <<>>
          /\ rover' = rover
          /\ status' = "running"]_vars

\* The paths a FILE line of the model names.
NamedPaths == DOMAIN FS \cup {"missing.txt"}

\* The step just taken parsed the line `FILE p`.
ParsedFileLine(p) ==
    last.op \in {"prompt", "line"} /\ strip(last.line) = <<"FILE", SP, p>>

\* C10 as stated: parsing `FILE <path>` returns (FILE, path) whether or not
\* the path names an existing regular file.
C10_ParseKeepsAnyPath ==
    \A p \in NamedPaths :
        ParsedFileLine(p) =>
            last.command = Cmd("FILE") /\ last.args = Path(<<p>>)

\* C10 amended: parsing `FILE <path>` checks the path when the line is
\* parsed: it returns (FILE, path) if the path names an existing regular
\* file, and otherwise prints the bad-arguments message, raises nothing and
\* returns no command.
C10_ParseChecksPath ==
    \A p \in NamedPaths :
        ParsedFileLine(p) =>
            IF p \in DOMAIN FS /\ FS[p].is_file
            THEN last.command = Cmd("FILE") /\ last.args = Path(<<p>>)
            ELSE /\ last.command = None
                 /\ last.args = None
                 /\ last.exc = ""
                 /\ out = <<MsgBadArgs>>

\* C10 witness: `FILE missing.txt` was typed, and parsing it gave no command
\* and the bad-arguments message.
C10_Witness ==
    /\ ParsedFileLine("missing.txt")
    /\ last.command = None
    /\ out = <<MsgBadArgs>>
    /\ status = "running"

\* What REPORT prints for a rover at (x, y), in hundredths, facing the
\* Direction `name`.
Reported(x, y, name) ==
    << [text |-> "Rover Position: ", x |-> x, y |-> y,
        direction |-> [kind |-> "Direction", name |-> name]] >>

\* The step just taken ran line n of scenario.txt, read from the prompt.
ScenarioLine(n) ==
    /\ last.op = "line"
    /\ Len(log) = n + 1
    /\ log[1] = [command |-> Cmd("FILE"), args |-> Path(<<"scenario.txt">>)]

\* C11: on the 5x5 board, PLACE 3,3,NORTH; MOVE; LEFT; MOVE; MOVE leaves the
\* rover at (1,4) and REPORT names WEST; going on with MOVE; MOVE; RIGHT;
\* MOVE; MOVE leaves it at (0,5) and REPORT names NORTH, the second and the
\* fourth of those MOVEs, and only they, being refused as out of bounds.
C11_Scenario ==
    /\ ScenarioLine(6) =>
          /\ rover.position = Vec(F(2, 0), F(8, 0))
          /\ out = Reported(100, 400, "WEST")
    /\ ScenarioLine(7) => out = <<>>
    /\ ScenarioLine(8) => out = <<MsgMoveOutOfBounds>>
    /\ ScenarioLine(10) => out = <<>>
    /\ ScenarioLine(11) => out = <<MsgMoveOutOfBounds>>
    /\ ScenarioLine(12) =>
          /\ rover.position = Vec(F(0, 0), F(10, 0))
          /\ out = Reported(0, 500, "NORTH")

\* C11 witness: the last REPORT of the scenario has just printed (0,5) NORTH.
C11_Witness ==
    /\ ScenarioLine(12)
    /\ rover # None
    /\ rover.position = Vec(F(0, 0), F(10, 0))
    /\ out = Reported(0, 500, "NORTH")

\* The Direction a quarter turn counter-clockwise of `name`.
LeftOf(name) ==
    CASE name = "NORTH" -> "WEST"
      [] name = "WEST"  -> "SOUTH"
      [] name = "SOUTH" -> "EAST"
      [] name = "EAST"  -> "NORTH"

\* The Direction a quarter turn clockwise of `name`.
RightOf(name) ==
    CASE name = "NORTH" -> "EAST"
      [] name = "EAST"  -> "SOUTH"
      [] name = "SOUTH" -> "WEST"
      [] name = "WEST"  -> "NORTH"

\* The Direction that the tolerance of 1e-6 finds in a stored heading, as
\* REPORT names it, or None.
Named(direction) ==
    coerce_direction_to_cardinal([position |-> Vec(F(0, 0), F(0, 0)),
                                  direction |-> direction])

\* The last n rotations were all `op`.
LastRotations(n, op) ==
    /\ Len(log) >= n
    /\ \A i \in (Len(log) - n + 1)..Len(log) : log[i].op = op

\* The last two rotations were a rotate_left and a rotate_right, either way.
TurnedAndBack ==
    /\ Len(log) >= 2
    /\ {log[Len(log) - 1].op, log[Len(log)].op} = {"rotate_left", "rotate_right"}

\* C12 as stated, of the stored vectors: a rotate_left of a rover whose
\* heading is a Direction's vector stores the vector of the Direction a
\* quarter turn counter-clockwise, a rotate_right that of the Direction a
\* quarter turn clockwise; four rotations the same way restore the heading
\* they started from, and so does a rotation followed by its opposite.
C12_RotationExact ==
    /\ \A n \in Direction :
          (LastRotations(1, "rotate_left") /\ log[Len(log)].direction = as_vec2(n))
              => rover.direction = as_vec2(LeftOf(n))
    /\ \A n \in Direction :
          (LastRotations(1, "rotate_right") /\ log[Len(log)].direction = as_vec2(n))
              => rover.direction = as_vec2(RightOf(n))
    /\ \A op \in {"rotate_left", "rotate_right"} :
          (LastRotations(4, op) /\ Named(log[1].direction) # None)
              => rover.direction = log[1].direction
    /\ (TurnedAndBack /\ Named(log[Len(log) - 1].direction) # None)
          => rover.direction = log[Len(log) - 1].direction

\* C12 amended, of the Direction the heading is within 1e-6 of: rotate_left
\* takes NORTH to WEST to SOUTH to EAST to NORTH and rotate_right goes the
\* other way round; four rotations the same way bring back the Direction
\* they started from, and so does a rotation followed by its opposite.  The
\* stored vector itself keeps a rounding residue.
C12_RotationCycle ==
    /\ \A n \in Direction :
          (LastRotations(1, "rotate_left")
             /\ Named(log[Len(log)].direction) = [kind |-> "Direction", name |-> n])
              => Named(rover.direction) = [kind |-> "Direction", name |-> LeftOf(n)]
    /\ \A n \in Direction :
          (LastRotations(1, "rotate_right")
             /\ Named(log[Len(log)].direction) = [kind |-> "Direction", name |-> n])
              => Named(rover.direction) = [kind |-> "Direction", name |-> RightOf(n)]
    /\ \A op \in {"rotate_left", "rotate_right"} :
          (LastRotations(4, op) /\ Named(log[1].direction) # None)
              => Named(rover.direction) = Named(log[1].direction)
    /\ (TurnedAndBack /\ Named(log[Len(log) - 1].direction) # None)
          => Named(rover.direction) = Named(log[Len(log) - 1].direction)

\* C12 witness: four rotate_left from the heading (0, 1) have brought the
\* rover back to NORTH, with a residue of four Cos90 in x.
C12_Witness ==
    /\ LastRotations(4, "rotate_left")
    /\ log[1].direction = as_vec2("NORTH")
    /\ rover.direction = Vec(F(0, 4 * Cos90), F(2, 0))
    /\ Named(rover.direction) = [kind |-> "Direction", name |-> "NORTH"]

\* lo <= v <= hi as numbers; nan is in no interval.
Between(lo, v, hi) ==
    /\ ~v.nan
    /\ lo.w < v.w \/ (lo.w = v.w /\ lo.t <= v.t)
    /\ v.w < hi.w \/ (v.w = hi.w /\ v.t <= hi.t)

\* C13: is_point_in_bounds answers True for exactly the points with
\* 0 <= x <= x_size and 0 <= y <= y_size, edges and corners included, and
\* False for every point with a coordinate below 0 or above its size; the
\* query prints nothing and changes nothing.
C13_ContainsIsInclusive ==
    last.op = "is_point_in_bounds" =>
        /\ last.ret = "True" <=>
               /\ Between(F(0, 0), last.args.point[1], last.args.board.x_size)
               /\ Between(F(0, 0), last.args.point[2], last.args.board.y_size)
        /\ last.ret \in {"True", "False"}
        /\ out = <<>>
        /\ rover = None

\* C13 witness: the far corner of a board was queried and found inside.
C13_Witness ==
    /\ last.op = "is_point_in_bounds"
    /\ last.args.point = <<last.args.board.x_size, last.args.board.y_size>>
    /\ last.ret = "True"

\* The line just parsed, without the blanks around it.
Trimmed == strip(last.line)

\* The Direction an atom names, in either case.
DirectionOf ==
    [a \in {"NORTH", "north", "EAST", "SOUTH", "WEST"} |->
        IF a = "north" THEN "NORTH" ELSE a]

\* The unit vector of each Direction.
UnitOf ==
    [n \in Direction |->
        CASE n = "NORTH" -> Vec(F(0, 0), F(2, 0))
          [] n = "EAST"  -> Vec(F(2, 0), F(0, 0))
          [] n = "SOUTH" -> Vec(F(0, 0), F(-2, 0))
          [] n = "WEST"  -> Vec(F(-2, 0), F(0, 0))]

\* The trimmed line is PLACE (in either case), one space and something more.
PlaceWithMore ==
    /\ Len(Trimmed) > 2
    /\ Trimmed[1] \in {"PLACE", "place"}
    /\ Trimmed[2] = SP

\* The trimmed line is `PLACE x,y,direction`: exactly three fields, x and y
\* numerals and direction the name of a Direction.
PlaceWellFormed ==
    /\ Len(Trimmed) = 7
    /\ Trimmed[4] = COMMA
    /\ Trimmed[6] = COMMA
    /\ Trimmed[3] \in DOMAIN FloatOf
    /\ Trimmed[5] \in DOMAIN FloatOf
    /\ Trimmed[7] \in DOMAIN DirectionOf

\* C14: a PLACE line with a second token parses to (PLACE, PlaceArgs) only
\* when that token is exactly three comma-separated fields x,y,direction with
\* x and y numeric and direction a Direction name in either case; the
\* position is then (x, y) and the direction that Direction's unit vector.
\* With any other number of fields, an x or y that is no number or an unknown
\* direction, no command is returned and a message is printed.
C14_PlaceParses ==
    (last.op = "process_input" /\ PlaceWithMore) =>
        IF PlaceWellFormed
        THEN /\ last.command = Cmd("PLACE")
             /\ last.args = PlaceArgs(Vec(FloatOf[Trimmed[3]], FloatOf[Trimmed[5]]),
                                      UnitOf[DirectionOf[Trimmed[7]]])
             /\ last.exc = ""
             /\ out = <<>>
        ELSE /\ last.command = None
             /\ last.args = None
             /\ last.exc = ""
             /\ out \in {<<MsgBadArgs>>, <<MsgFormat>>}

\* C14 witness: `PLACE 1,1,NORTH,1` was parsed: four fields, no command and
\* the bad-arguments message.
C14_Witness ==
    /\ last.op = "process_input"
    /\ Trimmed = <<"PLACE", SP, "1", COMMA, "1", COMMA, "NORTH", COMMA, "1">>
    /\ last.command = None
    /\ out = <<MsgBadArgs>>

\* The number of tokens of the trimmed line: one more than its spaces.
TokenCount == 1 + Cardinality({i \in DOMAIN Trimmed : Trimmed[i] = SP})

\* The command a first token names, in either case.
CommandOf ==
    [a \in Command \cup {"place", "riGHt"} |->
        CASE a = "place" -> "PLACE"
          [] a = "riGHt" -> "RIGHT"
          [] OTHER       -> a]

\* C15: the first token of a line of one or two tokens is matched against
\* the commands in either case, after the blanks around the line are
\* dropped: a first token that names a command is never answered with the
\* unknown-command message, any command returned is the one it names, and
\* for the commands without arguments that command is returned; a first
\* token that names no command gives no command and the unknown-command
\* message.
C15_CommandMatchedAnyCase ==
    (last.op = "process_input" /\ Trimmed # <<>> /\ TokenCount <= 2) =>
        IF Trimmed[1] \in DOMAIN CommandOf
        THEN /\ out # <<MsgUnknownCommand>>
             /\ last.command # None =>
                    last.command = Cmd(CommandOf[Trimmed[1]])
             /\ CommandOf[Trimmed[1]] \notin {"FILE", "PLACE"} =>
                    /\ last.command = Cmd(CommandOf[Trimmed[1]])
                    /\ last.args = None
                    /\ out = <<>>
        ELSE /\ last.command = None
             /\ last.args = None
             /\ last.exc = ""
             /\ out = <<MsgUnknownCommand>>

\* C15 witness: `  riGHt  ` was parsed to RIGHT.
C15_Witness ==
    /\ last.op = "process_input"
    /\ last.line = <<SP, SP, "riGHt", SP, SP>>
    /\ last.command = Cmd("RIGHT")
    /\ out = <<>>

\* The line holds nothing but spaces and newlines, or nothing at all.
Blank(line) == \A i \in DOMAIN line : line[i] \in {SP, NL}

\* C16: an empty or whitespace-only line, typed at the prompt or read from a
\* batch file, parses to no command without a message; nothing is
\* dispatched, and the rover and the session stay as they were.
C16_BlankLineIsSilent ==
    [][(last'.op \in {"prompt", "line"} /\ Blank(last'.line)) =>
          /\ last'.command = None
          /\ last'.args = None
          /\ last'.exc = ""
          /\ last'.ret = ""
          /\ out' = <<>>
          /\ rover' = rover
          /\ status' = status
          /\ log' = IF last'.op = "line" THEN log ELSE <<>>]_vars

\* C16 witness: a batch file's empty line was read while a rover exists, and
\* nothing was printed.
C16_Witness ==
    /\ last.op = "line"
    /\ last.line = <<NL>>
    /\ last.command = None
    /\ out = <<>>
    /\ rover # None
    /\ stack # <<>>

\* C17: a trimmed line that single spaces cut into more than two tokens
\* parses to no command and the format message, whatever its first token.
C17_TooManyTokens ==
    (last.op = "process_input" /\ TokenCount > 2) =>
        /\ last.command = None
        /\ last.args = None
        /\ last.exc = ""
        /\ out = <<MsgFormat>>

\* C17 witness: `PLACE 1, 1,NORTH`, a PLACE whose arguments hold a space,
\* was parsed to no command and the format message.
C17_Witness ==
    /\ last.op = "process_input"
    /\ Trimmed = <<"PLACE", SP, "1", COMMA, SP, "1", COMMA, "NORTH">>
    /\ last.command = None
    /\ out = <<MsgFormat>>

\* The commands that take no arguments.
Plain == {"MOVE", "LEFT", "RIGHT", "REPORT", "HELP", "EXIT"}

\* C18: for MOVE, LEFT, RIGHT, REPORT, HELP and EXIT a second token is
\* ignored: `<CMD> <anything>` parses to (CMD, no args) without a message,
\* as `<CMD>` alone does.
C18_SecondTokenIgnored ==
    (/\ last.op = "process_input"
     /\ TokenCount = 2
     /\ Trimmed[1] \in DOMAIN CommandOf
     /\ CommandOf[Trimmed[1]] \in Plain) =>
        /\ last.command = Cmd(CommandOf[Trimmed[1]])
        /\ last.args = None
        /\ last.exc = ""
        /\ out = <<>>
        /\ process_input(FS, <<Trimmed[1]>>) =
               Parsed(last.command, last.args, out, last.exc)

\* C18 witness: `riGHt 1,1,NORTH` was parsed to RIGHT with no arguments.
C18_Witness ==
    /\ last.op = "process_input"
    /\ Trimmed = <<"riGHt", SP, "1", COMMA, "1", COMMA, "NORTH">>
    /\ last.command = Cmd("RIGHT")
    /\ last.args = None
    /\ out = <<>>

\* C19 as stated: Rover(board, position, direction) with a position off the
\* board raises and makes no rover; with a position on the board it stores
\* the position and the direction themselves.
C19_NewStoresRequested ==
    (last.op = "new") =>
        IF OnBoard(last.args.position)
        THEN /\ last.exc = ""
             /\ rover = [position |-> last.args.position,
                         direction |-> last.args.direction]
        ELSE /\ last.exc = "ValueError"
             /\ rover = None

\* C19 amended: Rover(board, position, direction) with a position off the
\* board raises ValueError, prints nothing and makes no rover; with a position
\* on the board it raises nothing and stores the position and the direction
\* divided by its norm (the direction itself when it has length one, nan
\* components when it is the zero vector).
C19_NewStoresNormalized ==
    (last.op = "new") =>
        IF OnBoard(last.args.position)
        THEN /\ last.exc = ""
             /\ out = <<>>
             /\ rover = [position |-> last.args.position,
                         direction |-> UnitVector(last.args.direction)]
        ELSE /\ last.exc = "ValueError"
             /\ out = <<>>
             /\ rover = None

\* C19 witness: a Rover was constructed at (7, 3), off the 5 by 5 board, and
\* the constructor raised, leaving no rover.
C19_Witness ==
    /\ last.op = "new"
    /\ last.args.position = Vec(F(14, 0), F(6, 0))
    /\ last.exc = "ValueError"
    /\ rover = None

\* C19 second case reached: a Rover constructed on the board with a direction
\* of length two holds the position and a heading of length one.
C19_OnBoardReached ==
    /\ last.op = "new"
    /\ last.args.direction = Vec(F(4, 0), F(0, 0))
    /\ last.exc = ""
    /\ rover # None
    /\ rover.position = last.args.position
    /\ rover.direction = Vec(F(2, 0), F(0, 0))

\* A direction of length zero.
ZeroVector == Vec(F(0, 0), F(0, 0))

\* C20: constructing or placing a rover with a zero-length direction raises
\* an error and leaves the rover as it was, and no stored direction ever has
\* a nan component.
C20_ZeroDirectionRejected ==
    [][/\ (last'.op \in {"new", "place"} /\ last'.args.direction = ZeroVector)
            => (last'.exc # "" /\ rover' = rover)
       /\ rover' # None
            => \A i \in 1..2 : ~rover'.direction[i].nan]_vars

\* The heading `direction` is the cardinal Direction `name`, up to the
\* residue that quarter turns leave (far below the tolerance of 1e-6).
Heads(direction, name) ==
    \A i \in 1..2 :
        ~direction[i].nan /\ direction[i].w = as_vec2(name)[i].w

\* C21: REPORT dispatched on an existing rover prints exactly one line; the
\* line gives the position the rover had when REPORT was dispatched, to two
\* decimals, and, when the heading is a cardinal Direction, that Direction's
\* name; the rover is left exactly as it was.
C21_ReportIsCurrent ==
    [][(rover # None /\ Dispatched("REPORT")') =>
          /\ rover' = rover
          /\ Len(out') = 1
          /\ out'[1].text = "Rover Position: "
          /\ out'[1].x = 50 * rover.position[1].w
          /\ out'[1].y = 50 * rover.position[2].w
          /\ \A n \in Direction :
                 Heads(rover.direction, n) =>
                     out' = Reported(50 * rover.position[1].w,
                                     50 * rover.position[2].w, n)]_vars

\* C21 witness: REPORT has just named WEST for a rover that a LEFT turned
\* from NORTH, whose stored heading is not exactly (-1, 0).
C21_Witness ==
    /\ Dispatched("REPORT")
    /\ rover # None
    /\ rover.direction # as_vec2("WEST")
    /\ Heads(rover.direction, "WEST")
    /\ out = Reported(50 * rover.position[1].w, 50 * rover.position[2].w,
                      "WEST")

\* C22: the controller starts with no rover; a step brings the rover into
\* existence exactly when it dispatches PLACE, with no rover present, at a
\* position on the board; and once the rover exists no step makes it absent.
C22_RoverLifecycle ==
    /\ rover = None
    /\ [][/\ (rover = None) =>
                 ((rover' # None) <=>
                     /\ Dispatched("PLACE")'
                     /\ last'.exc = ""
                     /\ OnBoard(last'.args.position))
          /\ (rover # None) => (rover' # None)]_vars

\* C22 witness: a PLACE off the board has just been dispatched on an existing
\* rover inside a batch file, and the rover is still there.
C22_Witness ==
    /\ Dispatched("PLACE")
    /\ last.op = "line"
    /\ ~OnBoard(last.args.position)
    /\ out = <<MsgPlaceIgnored>>
    /\ rover # None

\* C23: after a line read at the prompt the session loop has stopped if the
\* line was an EXIT and keeps reading otherwise, whether the line gave no
\* command or a command that was dispatched; no line makes the session end
\* in any other way.
C23_LoopStopsOnlyOnExit ==
    (last.op = "prompt") =>
        status = IF last.command = Cmd("EXIT") THEN "exited" ELSE "running"

\* The files that a FILE line of the file q names.
Refs(q) ==
    {r \in DOMAIN FS :
        \E i \in DOMAIN FS[q].lines : FS[q].lines[i] = Line2("FILE", r)}

\* The files whose nesting is at most k deep: their FILE lines, if any, name
\* only files whose nesting is less deep.
Ending[k \in 0..Cardinality(DOMAIN FS)] ==
    IF k = 0 THEN {}
    ELSE UNION {{q \in DOMAIN FS : Refs(q) \subseteq less} :
                    less \in {Ending[k - 1]}}

\* The files that lead back to themselves through their FILE lines.
LoopFiles == {Path(<<q>>) : q \in DOMAIN FS \ Ending[Cardinality(DOMAIN FS)]}

\* The outermost batch file being read is one that leads back to itself.
LoopOpen == stack # <<>> /\ stack[1].path \in LoopFiles

\* C24 as stated: once FILE is dispatched on a file that names itself,
\* directly or through other files, the file is re-entered without bound:
\* the dispatch never completes, neither by returning nor otherwise.
C24_LoopNeverCompletes ==
    [][LoopOpen => (stack' # <<>> /\ last'.exc = "")]_vars

\* C24 amended: once FILE is dispatched on a file that names itself, directly
\* or through other files, no FILE dispatch returns and the nesting only
\* grows, the same files being opened again, until the interpreter's
\* recursion limit is reached; then RecursionError escapes the outermost
\* dispatch, every file is closed and the session ends.  The dispatch never
\* returns Continue.
C24_LoopEndsInRecursionError ==
    [][LoopOpen =>
          IF last'.exc = ""
          THEN /\ last'.op = "line"
               /\ Len(stack') >= Len(stack)
               /\ \A i \in DOMAIN stack' : stack'[i].path \in LoopFiles
               /\ status' = status
          ELSE /\ last'.exc = "RecursionError"
               /\ Len(stack) = MaxDepth
               /\ stack' = <<>>
               /\ status' = "crashed"]_vars

\* C24 witness: FILE ping.txt, whose second line names pong.txt, whose only
\* line names ping.txt, has ended in RecursionError, the first REPORT of
\* ping.txt having run at each level and the last REPORT never.
C24_Witness ==
    /\ log # <<>>
    /\ log[1] = [command |-> Cmd("FILE"), args |-> Path(<<"ping.txt">>)]
    /\ last.exc = "RecursionError"
    /\ status = "crashed"
    /\ stack = <<>>
    /\ log[Len(log)].command = Cmd("FILE")

\* The step just taken dispatched an EXIT line of a batch file.
ExitLine == last.op = "line" /\ last.command = Cmd("EXIT")

\* C25: an EXIT line inside a batch file stops nothing.  Its dispatch
\* returns False, which is dropped: the rover and the session stay as they
\* were and the file stays open; the next step parses the line after it, or,
\* if it was the last line, the enclosing FILE dispatch returns True; and
\* every FILE dispatch that returns returns True with the session running.
C25_ExitInFileIgnored ==
    [][/\ ExitLine' =>
             /\ last'.ret = "False"
             /\ last'.exc = ""
             /\ out' = <<>>
             /\ rover' = rover
             /\ status' = "running"
             /\ stack' = [stack EXCEPT ![Len(stack)].idx = @ + 1]
       /\ ExitLine =>
             LET top == stack[Len(stack)]
                 lines == readlines(FS, top.path)
             IN  IF top.idx <= Len(lines)
                 THEN last'.op = "line" /\ last'.line = lines[top.idx]
                 ELSE last'.op = "return" /\ last'.command = Cmd("FILE")
       /\ (last'.op = "return") =>
             /\ last'.ret = "True"
             /\ status' = "running"]_vars

\* C25 witness: the MOVE that follows the EXIT line of inner.txt has just
\* been dispatched, with the session still running.
C25_Witness ==
    /\ last.op = "line"
    /\ last.command = Cmd("MOVE")
    /\ Len(log) >= 2
    /\ log[Len(log) - 1].command = Cmd("EXIT")
    /\ stack # <<>>
    /\ stack[Len(stack)].path = Path(<<"inner.txt">>)
    /\ status = "running"

\* The readable files whose FILE lines, followed to any depth, never lead
\* back to a file already being read.
AcyclicFiles ==
    {Path(<<q>>) : q \in {r \in Ending[Cardinality(DOMAIN FS)] :
                              open_exc(FS, Path(<<r>>)) = ""}}

\* C26: a FILE dispatched on a readable file whose nested FILE lines form no
\* cycle terminates by returning True: no exception escapes it, and when the
\* outermost file is closed the commands of every line of every file it
\* names have been dispatched once per reference, a nested file's commands
\* in the place of the FILE line that names it.
C26_AcyclicFileReturns ==
    (/\ log # <<>>
     /\ log[1].command = Cmd("FILE")
     /\ log[1].args \in AcyclicFiles)
    => /\ status # "crashed"
       /\ last.exc = ""
       /\ (stack = <<>>) =>
              /\ last.op = "return"
              /\ last.ret = "True"
              /\ Tail(log) = FileCommands(log[1].args, 1,
                                          Cardinality(DOMAIN FS))

\* C27: LEFT and RIGHT on an existing rover never change its position and
\* always succeed, wherever on the board the rover stands: nothing is
\* printed or raised, True is returned, and a heading that is a cardinal
\* Direction becomes the Direction a quarter turn to that side.  MOVE,
\* accepted or refused, never changes the heading.
C27_Frames ==
    [][/\ (rover # None /\ (Dispatched("LEFT")' \/ Dispatched("RIGHT")')) =>
             /\ rover'.position = rover.position
             /\ out' = <<>>
             /\ last'.exc = ""
             /\ last'.ret = "True"
             /\ \A n \in Direction :
                    Heads(rover.direction, n) =>
                        Heads(rover'.direction,
                              IF Dispatched("LEFT")' THEN LeftOf(n)
                              ELSE RightOf(n))
       /\ (rover # None /\ Dispatched("MOVE")') =>
             rover'.direction = rover.direction]_vars

\* C27 witness: a rover in the north-west corner (0, 5) facing WEST has just
\* been turned LEFT and faces SOUTH from the same corner.
C27_Witness ==
    /\ Dispatched("LEFT")
    /\ rover # None
    /\ rover.position = Vec(F(0, 0), F(BOARD_SIZE, 0))
    /\ Heads(rover.direction, "SOUTH")
    /\ out = <<>>

\* C27 second case reached: a MOVE was refused at the edge and the heading
\* is the inexact one a turn left behind.
C27_MoveRefusedReached ==
    /\ Dispatched("MOVE")
    /\ rover # None
    /\ out = <<MsgMoveOutOfBounds>>
    /\ \E i \in 1..2 : rover.direction[i].t # 0

====
